---- MODULE Spec2Model ----
(***************************************************************************)
(* A model of text2audio's conversion pipeline: the configuration setters, *)
(* Text2Audio::convert with its direct and segmented paths, the retry      *)
(* routine with exponential backoff, sequential and parallel collection of *)
(* the per-segment audio, the AI splitter's parsing of the chat response   *)
(* and the hand-over to AudioMerger.  AiSplitter::split and AudioMerger    *)
(* are also run on their own, on inputs convert never gives them.          *)
(*                                                                         *)
(* Strings are sequences of one-character strings.  The remote services    *)
(* are stubs: a synthesis call either returns the audio of the text it was *)
(* given or one of the client's TtsApi errors; a chat call returns one of  *)
(* a few raw responses or an AiApi error.                                  *)
(***************************************************************************)
EXTENDS Integers, Sequences, FiniteSets, TLC

VARIABLES
  cfg,            \* the Text2Audio struct's fields used by convert
  pc,             \* where convert is suspended
  input,          \* convert's argument text
  text,           \* convert's trimmed text
  mode,           \* which path convert took
  segments,       \* the splitter's result
  idx,            \* collect_audio_sequential: the current segment (1-based)
  attempt,        \* text_to_audio_with_retry: the loop variable
  last_error,     \* text_to_audio_with_retry: last_error
  audio_segments, \* collect_audio_sequential: audio_segments
  units,          \* collect_audio_parallel: one future per segment
  results,        \* collect_audio_parallel: results, as the stream yields them
  completion,     \* observation: the segment index behind each entry of results
  calls,          \* observation: synthesis calls made per text
  delays,         \* observation: backoff delays taken per text
  lastClientErr,  \* observation: the client's error of the last failed call per text
  chatCalls,      \* observation: chat-completion calls made
  rawResponse,    \* observation: the text the chat completion returned
  request,        \* the chat-completion request sent to the service
  response,       \* the service's answer to it, as Client::chat_completion got it
  file,           \* the file at output_path
  mergeArg,       \* observation: what AudioMerger::merge was invoked with
  outcome         \* what convert returned

seqVars  == <<idx, attempt, last_error, audio_segments>>
parVars  == <<units, results, completion>>
obsVars  == <<calls, delays, lastClientErr>>
chatVars == <<chatCalls, rawResponse, request, response>>
vars == <<cfg, pc, input, text, mode, segments, idx, attempt, last_error, audio_segments,
          units, results, completion, calls, delays, lastClientErr, chatCalls,
          rawResponse, request, response, file, mergeArg, outcome>>

----------------------------------------------------------------------------
(* Bounds of the model *)

\* with_retry_config is called with max_retries in 0..MaxRetries
MaxRetries == 2
\* input texts carry up to MaxPad blanks on each side
MaxPad == 1
\* the retry-only specification calls with_retry_config with up to MaxAttempts
MaxAttempts == 34
\* the splitter-only specification parses raw responses of up to MaxRaw characters
MaxRaw == 7
\* the merger-only specification merges up to MaxBuffers buffers
MaxBuffers == 3

(* Program constants *)
DefaultMaxSegmentLength == 500
DefaultMaxParallel == 3
DefaultMaxRetries == 3
DefaultRetryDelayMs == 100
MinSegmentLength == 100
MaxSegmentLength == 1024
MinParallel == 1
MaxParallel == 10
U32Bits == 32
\* speed and volume in tenths: the default 1.0 and the ranges 0.5..2.0 and
\* 0.0..10.0
DefaultSpeedTenths == 10
DefaultVolumeTenths == 10
MinSpeedTenths == 5
MaxSpeedTenths == 20
MinVolumeTenths == 0
MaxVolumeTenths == 100

----------------------------------------------------------------------------
(* Strings *)

Whitespace == {" ", "\t", "\n"}

SEGMENT_DELIMITER == <<"|", "|", "|">>

\* a trim that was left out
TrimNothing(s) == s

\* str::trim: the text between the first and the last non-whitespace character
Trim(s) ==
  IF \A i \in 1..Len(s) : s[i] \in Whitespace THEN <<>>
  ELSE LET first == CHOOSE i \in 1..Len(s) :
                      s[i] \notin Whitespace /\ \A j \in 1..(i - 1) : s[j] \in Whitespace
           last  == CHOOSE i \in 1..Len(s) :
                      s[i] \notin Whitespace /\ \A j \in (i + 1)..Len(s) : s[j] \in Whitespace
       IN  SubSeq(s, first, last)

\* whether the delimiter starts at position i of s
MatchAt(s, i) ==
  /\ i + Len(SEGMENT_DELIMITER) - 1 <= Len(s)
  /\ SubSeq(s, i, i + Len(SEGMENT_DELIMITER) - 1) = SEGMENT_DELIMITER

\* str::split(SEGMENT_DELIMITER): the pieces between non-overlapping matches,
\* found left to right; a string without a match is its own single piece
RECURSIVE SplitOnDelimiter(_)
SplitOnDelimiter(s) ==
  LET hits == {i \in 1..Len(s) : MatchAt(s, i)}
  IN  IF hits = {} THEN <<s>>
      ELSE LET h == CHOOSE i \in hits : \A j \in hits : i <= j
           IN  <<SubSeq(s, 1, h - 1)>>
               \o SplitOnDelimiter(SubSeq(s, h + Len(SEGMENT_DELIMITER), Len(s)))

\* a filter that keeps every piece
KeepAll(ps) == ps

\* Iterator::filter(|s| !s.is_empty()) over a sequence of strings
RECURSIVE NonEmptyOnly(_)
NonEmptyOnly(ps) ==
  IF ps = <<>> THEN <<>>
  ELSE (IF Head(ps) = <<>> THEN <<>> ELSE <<Head(ps)>>) \o NonEmptyOnly(Tail(ps))

\* no chat completion has returned a text
NoResponse == <<"(none)">>

\* a parse without the map(trim)
ParseUntrimmed(raw_response) ==
  LET filtered == NonEmptyOnly(SplitOnDelimiter(raw_response))
  IN  IF filtered = <<>> THEN <<raw_response>> ELSE filtered

\* a parse without the fallback to the raw response
ParseWithoutFallback(raw_response) ==
  LET pieces   == SplitOnDelimiter(raw_response)
      trimmed  == [i \in 1..Len(pieces) |-> Trim(pieces[i])]
  IN  NonEmptyOnly(trimmed)

\* AiSplitter::parse_segments
parse_segments(raw_response) ==
  LET pieces   == SplitOnDelimiter(raw_response)
      trimmed  == [i \in 1..Len(pieces) |-> Trim(pieces[i])]
      filtered == NonEmptyOnly(trimmed)
  IN  IF filtered = <<>> THEN <<raw_response>> ELSE filtered

----------------------------------------------------------------------------
(* Errors *)

NoError    == [variant |-> "none", msg |-> <<>>]
EmptyInput == [variant |-> "EmptyInput", msg |-> <<>>]
TtsApi(m)  == [variant |-> "TtsApi", msg |-> m]
AiApi(m)   == [variant |-> "AiApi", msg |-> m]
AudioError(m) == [variant |-> "Audio", msg |-> m]
HoundError(m) == [variant |-> "Hound", msg |-> m]

\* the Display implementation thiserror derives from the #[error] attributes
Display(e) ==
  CASE e.variant = "AiApi"      -> <<"AI API error: ">> \o e.msg
    [] e.variant = "TtsApi"     -> <<"TTS API error: ">> \o e.msg
    [] e.variant = "Audio"      -> <<"Audio processing error: ">> \o e.msg
    [] e.variant = "EmptyInput" -> <<"Input text is empty">>
    [] e.variant = "Hound"      -> <<"Audio library error: ">> \o e.msg
    [] OTHER                    -> e.msg

\* the errors Client::text_to_audio returns
ClientTtsErrors ==
  { TtsApi(<<"TTS request failed: ", "transport">>),
    TtsApi(<<"Failed to read audio data: ", "body">>),
    TtsApi(<<"Received empty audio data">>) }

\* the errors Client::chat_completion returns
ClientChatErrors ==
  { AiApi(<<"Chat completion failed: ", "transport">>),
    AiApi(<<"Invalid AI response format">>) }

\* an error replaced on its way to the caller
PropagateAsEmptyInput(e) == EmptyInput

\* the `?` after chat_completion: the error goes to the caller as it is
Propagate(e) == e

\* the client's error passed on as it is
TryConvertVerbatim(e) == e

\* Text2Audio::try_convert's map_err
TryConvertError(e) == TtsApi(<<"TTS request failed: ">> \o Display(e))

\* the parallel unit's Error::TtsApi(format!("Retry {}: {}", attempt, e))
ParallelRetryError(a, e) == TtsApi(<<"Retry ", ToString(a), ": ">> \o Display(e))

\* text_to_audio_with_retry's error when last_error is None
UnknownError == TtsApi(<<"Unknown error">>)

\* the parallel unit's error when last_error is None
AllFailedError == TtsApi(<<"All retry attempts failed">>)

----------------------------------------------------------------------------
(* Audio buffers and the file at output_path *)

\* hound::WavSpec, the format descriptor in a container's header.  The
\* buffers of the model are 16-bit mono and differ in their sample rate
WavSpec(rate) == [sample_rate |-> rate, bits_per_sample |-> 16, channels |-> 1]
NoSpec == [sample_rate |-> 0, bits_per_sample |-> 0, channels |-> 0]

\* the descriptors the synthesis service answers with
Specs == {WavSpec(24000), WavSpec(16000)}

\* a WAV container with descriptor d carrying the speech of text t
Wav(t, d) == [src |-> t, kind |-> "wav", spec |-> d]

\* the bytes the synthesis service may return for a text
AudioOf(t) == {Wav(t, d) : d \in Specs}
NoAudio    == [src |-> <<>>, kind |-> "none", spec |-> NoSpec]

\* a buffer of zero bytes, and one whose header does not parse
EmptyBuffer   == [src |-> <<>>, kind |-> "empty", spec |-> NoSpec]
CorruptBuffer == [src |-> <<"x">>, kind |-> "corrupt", spec |-> NoSpec]

\* a container whose header parses and whose sample stream fails after one
\* sample, its data chunk being shorter than the header declares
TruncatedBuffer == [src |-> <<"T">>, kind |-> "truncated", spec |-> WavSpec(24000)]

\* an emptiness test that never fires
IsEmptyBufferNever(a) == FALSE

IsEmptyBuffer(a) == a.kind = "empty"
ParsesAsWav(a)   == a.kind \in {"wav", "truncated"}

\* an item of reader.samples::<i16>() is an Err: `sample?` returns it
ReadFails(a) == a.kind = "truncated"

\* AudioMerger::extract_wav_spec on a buffer that parses
extract_wav_spec(a) == a.spec

\* reader.samples::<i16>(): the samples a buffer's stream yields, up to its
\* failure if it fails; the speech of a text has one sample per character
Samples(a) == a.src

\* the sample streams of buffers 1..n written last buffer first
RECURSIVE ConcatReversed(_, _)
ConcatReversed(buffers, n) ==
  IF n = 0 THEN <<>> ELSE Samples(buffers[n]) \o ConcatReversed(buffers, n - 1)

\* the sample streams of buffers 1..n written one after the other
RECURSIVE Concat(_, _)
Concat(buffers, n) ==
  IF n = 0 THEN <<>> ELSE Concat(buffers, n - 1) \o Samples(buffers[n])

\* Result<Vec<u8>> and Result<()>
Ok(v)   == [state |-> "ok", value |-> v, err |-> NoError]
Err(e)  == [state |-> "err", value |-> NoAudio, err |-> e]
Unit    == Ok(NoAudio)
NotYet  == [state |-> "pending", value |-> NoAudio, err |-> NoError]

\* a writer finalized although the copy failed
FinalizedOnError(d, samples) == [state |-> "finalized", spec |-> d, data |-> samples]

\* the file at output_path: absent, created by WavWriter::create and written
\* to without writer.finalize() having been executed, or finalized by it
NoFile == [state |-> "absent", spec |-> NoSpec, data |-> <<>>]
Created(d, samples)   == [state |-> "created", spec |-> d, data |-> samples]
Finalized(d, samples) == [state |-> "finalized", spec |-> d, data |-> samples]

\* AudioMerger::save_single: the result and the file it leaves, old being the
\* file before the call
save_single(audio_bytes, old) ==
  IF IsEmptyBuffer(audio_bytes)
  THEN [res |-> Err(AudioError(<<"Empty audio data">>)), file |-> old]
  ELSE IF ~ParsesAsWav(audio_bytes)
  THEN [res |-> Err(AudioError(<<"Invalid WAV format: ", "hound">>)), file |-> old]
  ELSE IF ReadFails(audio_bytes)
  THEN [res  |-> Err(HoundError(<<"hound">>)),
        file |-> Created(audio_bytes.spec, Samples(audio_bytes))]
  ELSE [res |-> Unit,
        file |-> Finalized(audio_bytes.spec, Samples(audio_bytes))]

\* AudioMerger::merge: the result and the file it leaves, old being the file
\* before the call.  The writer is created with the first buffer's descriptor
\* once that buffer's header parsed; write_segment copies the buffers in order
\* and stops at the first whose header does not parse or whose sample stream
\* fails, the samples read before the failure being written; finalize comes
\* last
merge(buffers, old) ==
  IF buffers = <<>>
  THEN [res |-> Err(AudioError(<<"No audio segments to merge">>)), file |-> old]
  ELSE IF ~ParsesAsWav(buffers[1])
  THEN [res |-> Err(AudioError(<<"Invalid WAV format: ", "hound">>)), file |-> old]
  ELSE LET first_spec == extract_wav_spec(buffers[1])
           bad == {i \in 1..Len(buffers) :
                     ~ParsesAsWav(buffers[i]) \/ ReadFails(buffers[i])}
       IN  IF bad = {}
           THEN [res  |-> Unit,
                 file |-> Finalized(first_spec, Concat(buffers, Len(buffers)))]
           ELSE LET b == CHOOSE i \in bad : \A j \in bad : i <= j
                IN  IF ~ParsesAsWav(buffers[b])
                    THEN [res  |-> Err(AudioError(<<"Segment ", ToString(b - 1),
                                                    " invalid WAV: ", "hound">>)),
                          file |-> Created(first_spec, Concat(buffers, b - 1))]
                    ELSE [res  |-> Err(HoundError(<<"hound">>)),
                          file |-> Created(first_spec, Concat(buffers, b))]

----------------------------------------------------------------------------
(* Unsigned 32-bit arithmetic of the backoff multiplier *)

\* a u32 as two 16-bit halves
U32(hi, lo) == [hi |-> hi, lo |-> lo]

\* 2_u32.pow(a): the outcomes a build can produce.  The power fits while
\* a < 32; beyond, a build with overflow checks panics and one without
\* wraps to 0
Pow2U32(a) ==
  IF a < U32Bits
  THEN {[panic |-> FALSE,
         mult  |-> U32(IF a >= 16 THEN 2 ^ (a - 16) ELSE 0,
                       IF a < 16 THEN 2 ^ a ELSE 0)]}
  ELSE {[panic |-> TRUE,  mult |-> U32(0, 0)],
        [panic |-> FALSE, mult |-> U32(0, 0)]}

\* retry_delay * multiplier, kept as the pair of its factors
Delay(base, m) == [base |-> base, mult |-> m]

----------------------------------------------------------------------------
(* The client's chat completion *)

\* a TextMessage of the request
Message(role, content) == [role |-> role, content |-> content]

\* the system message both call_chat and call_chat_with_thinking start with
SystemInstruction == <<"instruction">>

NoRequest == [model |-> "none", messages |-> <<>>, thinking |-> FALSE,
              coding_plan |-> FALSE]

\* the Client an AiSplitter holds: AiSplitter::new(api_key, model, max_length)
\* .with_thinking(enable_thinking).with_coding_plan(coding_plan)
Splitter(self) ==
  [model |-> self.model, thinking |-> self.enable_thinking,
   coding_plan |-> self.coding_plan]

\* AiSplitter::build_prompt
build_prompt(max_length, t) ==
  <<"split into segments of at most ", ToString(max_length), " characters: ">> \o t

\* Client::call_chat: the request it sends
call_chat(client, prompt) ==
  [model       |-> client.model,
   messages    |-> <<Message("system", SystemInstruction), Message("user", prompt)>>,
   thinking    |-> FALSE,
   coding_plan |-> client.coding_plan]

\* Client::call_chat_with_thinking: the request it sends
call_chat_with_thinking(client, prompt) ==
  [model       |-> client.model,
   messages    |-> <<Message("system", SystemInstruction), Message("system", prompt)>>,
   thinking    |-> TRUE,
   coding_plan |-> client.coding_plan]

\* a match that calls every model with thinking when thinking is enabled
ThinkingEveryModel == {"GLM4_7", "GLM4_6", "GLM4_5", "GLM4_5Flash", "GLM4_5Air"}

\* the models chat_completion calls with thinking when thinking is enabled
ThinkingModels == {"GLM4_7", "GLM4_6", "GLM4_5"}

\* Client::chat_completion: the match on self.model
ChatRequest(client, prompt) ==
  IF client.model \in ThinkingModels /\ client.thinking
  THEN call_chat_with_thinking(client, prompt)
  ELSE call_chat(client, prompt)

\* a serde_json::Value, with the text it holds or prints as
JsonString(t) == [type |-> "string", s |-> t]
JsonNumber    == [type |-> "number", s |-> <<"1">>]
JsonNull      == [type |-> "null", s |-> <<"null">>]

\* a choice of the response: message.content is None or Some(value)
Choice(has_content, content) == [has_content |-> has_content, content |-> content]

\* what send() came back with: a transport failure, or a
\* ChatCompletionResponse whose choices is None or Some(list)
TransportFailure == [failed |-> TRUE, has_choices |-> FALSE, choices |-> <<>>]
ChatCompletionResponse(has_choices, choices) ==
  [failed |-> FALSE, has_choices |-> has_choices, choices |-> choices]
NoChatResponse == [failed |-> FALSE, has_choices |-> FALSE, choices |-> <<"(none)">>]

None == [some |-> FALSE, s |-> <<>>]
Some(t) == [some |-> TRUE, s |-> t]

\* a content extraction that takes a content of any type
ContentOfAnyType(r) ==
  IF r.has_choices /\ r.choices # <<>> /\ r.choices[1].has_content
  THEN Some(r.choices[1].content.s)
  ELSE None

\* the content chat_completion takes from a response: the first choice's
\* message content when it is a string
Content(r) ==
  IF ~r.has_choices THEN None
  ELSE IF r.choices = <<>> THEN None
  ELSE IF ~r.choices[1].has_content THEN None
  ELSE IF r.choices[1].content.type # "string" THEN None
  ELSE Some(r.choices[1].content.s)

\* Client::chat_completion is called with the prompt in text
chat_completion ==
  /\ pc = "client"
  /\ pc' = "client_wait"
  /\ chatCalls' = chatCalls + 1
  /\ request' = ChatRequest(Splitter(cfg), text)
  /\ UNCHANGED <<cfg, input, text, mode, segments, seqVars, parVars, obsVars, rawResponse,
                 response, file, mergeArg, outcome>>

\* send() came back with r: chat_completion returns the content or an error
chat_response(r) ==
  /\ pc = "client_wait"
  /\ pc' = "client_done"
  /\ response' = r
  /\ IF r.failed
     THEN /\ outcome' = Err(AiApi(<<"Chat completion failed: ", "transport">>))
          /\ UNCHANGED rawResponse
     ELSE IF Content(r).some
     THEN /\ outcome' = Unit
          /\ rawResponse' = Content(r).s
     ELSE /\ outcome' = Err(AiApi(<<"Invalid AI response format">>))
          /\ UNCHANGED rawResponse
  /\ UNCHANGED <<cfg, input, text, mode, segments, seqVars, parVars, obsVars, chatCalls,
                 request, file, mergeArg>>

----------------------------------------------------------------------------
(* Configuration *)

Clamp(x, lo, hi) == IF x < lo THEN lo ELSE IF x > hi THEN hi ELSE x

\* an f32: a number, given in tenths, or NaN
F32(t) == [nan |-> FALSE, tenths |-> t]
NaN    == [nan |-> TRUE, tenths |-> 0]

\* the comparison a < b of two f32: false when either is NaN
Lt(a, b) == ~a.nan /\ ~b.nan /\ a.tenths < b.tenths

\* f32::clamp: x below min gives min, x above max gives max, and x is
\* returned otherwise, NaN included
f32_clamp(x, min, max) ==
  LET x1 == IF Lt(x, min) THEN min ELSE x
  IN  IF Lt(max, x1) THEN max ELSE x1

\* enum Model and enum Voice, and their defaults
Models == {"GLM4_7", "GLM4_6", "GLM4_5", "GLM4_5Flash", "GLM4_5Air"}
Voices == {"Tongtong", "Chuichui", "Xiaochen", "Jam", "Kazi", "Douji", "Luodo"}
DefaultModel == "GLM4_5Flash"
DefaultVoice == "Tongtong"

\* Text2Audio::new
new ==
  [ model              |-> DefaultModel,
    voice              |-> DefaultVoice,
    speed              |-> F32(DefaultSpeedTenths),
    volume             |-> F32(DefaultVolumeTenths),
    enable_thinking    |-> FALSE,
    coding_plan        |-> FALSE,
    max_segment_length |-> DefaultMaxSegmentLength,
    enable_parallel    |-> FALSE,
    max_parallel       |-> DefaultMaxParallel,
    max_retries        |-> DefaultMaxRetries,
    retry_delay        |-> DefaultRetryDelayMs ]

Init ==
  /\ cfg = new
  /\ pc = "config"
  /\ input = <<>>
  /\ text = <<>>
  /\ mode = "none"
  /\ segments = <<>>
  /\ idx = 0
  /\ attempt = 0
  /\ last_error = NoError
  /\ audio_segments = <<>>
  /\ units = <<>>
  /\ results = <<>>
  /\ completion = <<>>
  /\ calls = <<>>
  /\ delays = <<>>
  /\ lastClientErr = <<>>
  /\ chatCalls = 0
  /\ rawResponse = NoResponse
  /\ request = NoRequest
  /\ response = NoChatResponse
  /\ file = NoFile
  /\ mergeArg = [called |-> FALSE, buffers |-> <<>>]
  /\ outcome = NotYet

runVars == <<pc, input, text, mode, segments, idx, attempt, last_error, audio_segments,
             units, results, completion, calls, delays, lastClientErr, chatCalls,
             rawResponse, request, response, file, mergeArg, outcome>>

\* a with_model that switches thinking off
with_model_resetting(self, model) ==
  [self EXCEPT !.model = model, !.enable_thinking = FALSE]

\* Text2Audio::with_model
with_model(self, model) == [self EXCEPT !.model = model]

\* Text2Audio::with_voice
with_voice(self, voice) == [self EXCEPT !.voice = voice]

\* Text2Audio::with_speed
with_speed(self, speed) ==
  [self EXCEPT !.speed = f32_clamp(speed, F32(MinSpeedTenths), F32(MaxSpeedTenths))]

\* Text2Audio::with_volume
with_volume(self, volume) ==
  [self EXCEPT !.volume = f32_clamp(volume, F32(MinVolumeTenths), F32(MaxVolumeTenths))]

\* Text2Audio::with_max_segment_length
with_max_segment_length(self, max_length) ==
  [self EXCEPT !.max_segment_length =
                 Clamp(max_length, MinSegmentLength, MaxSegmentLength)]

\* a with_parallel that switches the parallel mode over
with_parallel_toggling(self, max_parallel) ==
  [self EXCEPT !.enable_parallel = ~self.enable_parallel,
               !.max_parallel = Clamp(max_parallel, MinParallel, MaxParallel)]

\* Text2Audio::with_parallel
with_parallel(self, max_parallel) ==
  [self EXCEPT !.enable_parallel = TRUE,
               !.max_parallel = Clamp(max_parallel, MinParallel, MaxParallel)]

\* Text2Audio::with_thinking
with_thinking(self, enable) == [self EXCEPT !.enable_thinking = enable]

\* Text2Audio::with_coding_plan
with_coding_plan(self, enable) == [self EXCEPT !.coding_plan = enable]

\* Text2Audio::with_retry_config
with_retry_config(self, max_retries, retry_delay) ==
  [self EXCEPT !.max_retries = max_retries, !.retry_delay = retry_delay]

\* Builder: its methods replace the converter it holds by the result of the
\* with_ setter of the same name, and build returns that converter
Builder(converter) == converter

\* a setter is called on the converter before the conversion starts, c being
\* the converter it returns
Set(c) ==
  /\ pc = "config"
  /\ cfg' = c
  /\ UNCHANGED runVars

----------------------------------------------------------------------------
(* Inputs *)

Blanks(n) == [i \in 1..n |-> " "]
Letters(n) == [i \in 1..n |-> "a"]

\* the lengths on both sides of the smallest threshold, 100
LongLengths == {MinSegmentLength - 1, MinSegmentLength, MinSegmentLength + 1}

\* input texts: short ones with blanks around and inside, and texts on both
\* sides of the smallest threshold, bare and padded
Texts ==
  { Blanks(l) \o Letters(n) \o Blanks(t) : l \in 0..MaxPad, t \in 0..MaxPad, n \in 0..1 }
  \cup { <<"a", " ", "b">>, <<"\n", "\t">> }
  \cup { Letters(n) : n \in LongLengths }
  \cup { Blanks(MaxPad) \o Letters(n) \o <<"\n">> : n \in LongLengths }

\* raw chat responses: three, two and one segment, padded pieces, an empty
\* piece, no delimiter, the responses without any text: empty, blank, a
\* lone delimiter, and a response whose first segment is longer than the
\* smallest threshold
Responses ==
  { <<"A">> \o SEGMENT_DELIMITER \o <<"B">> \o SEGMENT_DELIMITER \o <<"C">>,
    Letters(MinSegmentLength + 1) \o SEGMENT_DELIMITER \o <<"B">>,
    <<" ", "A", " ">> \o SEGMENT_DELIMITER \o <<"B", "\n">>,
    <<"A">> \o SEGMENT_DELIMITER \o SEGMENT_DELIMITER,
    <<"A", " ", "B">>,
    <<>>, <<" ">>, SEGMENT_DELIMITER }

\* the strings of length n over an alphabet
RECURSIVE Strings(_, _)
Strings(alphabet, n) ==
  IF n = 0 THEN {<<>>}
  ELSE {Append(w, c) : w \in Strings(alphabet, n - 1), c \in alphabet}

\* raw responses of the splitter-only runs: every string of up to MaxRaw
\* characters made of a letter, a blank and the delimiter's character
RawResponses == UNION {Strings({"A", " ", "|"}, n) : n \in 0..MaxRaw}

\* the texts and the max_length AiSplitter::split is called with on its own
SplitTexts == {<<>>, <<"a">>, <<" ">>, <<"a", "b">>, <<" ", "a">>, <<"a", "b", "c">>}
SplitLengths == 1..2

\* the buffers AudioMerger is called with on its own: containers of two, one
\* and no sample in either format, a buffer of zero bytes, a corrupt one and
\* a truncated one
Buffers ==
  {Wav(t, d) : t \in {<<"B", "C">>, <<"A">>, <<>>}, d \in Specs}
  \cup {EmptyBuffer, CorruptBuffer, TruncatedBuffer}

\* the sequences of up to n buffers
RECURSIVE BufferSeqs(_)
BufferSeqs(n) ==
  IF n = 0 THEN {<<>>}
  ELSE BufferSeqs(n - 1)
       \cup {Append(q, b) : q \in {r \in BufferSeqs(n - 1) : Len(r) = n - 1}, b \in Buffers}

\* a file that is at output_path before the call
OldFile == Finalized(WavSpec(8000), <<"o", "l", "d">>)

\* the arguments the setters are called with
SegmentLengthArgs == {50, 2000}
ParallelArgs == {0, 2, 20}
RetryDelayArgs == {1}

\* the arguments of the configuration-only runs: below, inside and above each
\* range, and NaN for the two f32
SpeedArgs == {F32(2), F32(12), F32(30), NaN}
VolumeArgs == {F32(-10), F32(25), F32(150), NaN}
LengthArgs == {50, 800, 2000}
WorkerArgs == {0, 5, 20}
VoiceArgs == {"Tongtong", "Xiaochen"}

\* the prompts Client::chat_completion is called with on its own
Prompts == {<<"p">>, <<"q", "r">>}

\* the choices a response holds: no content, a string, the empty string, a
\* number, null
Choices ==
  { Choice(FALSE, JsonNull),
    Choice(TRUE, JsonString(<<"A">> \o SEGMENT_DELIMITER \o <<"B">>)),
    Choice(TRUE, JsonString(<<>>)),
    Choice(TRUE, JsonNumber),
    Choice(TRUE, JsonNull) }

\* what send() comes back with: a transport failure, a response without
\* choices, and the responses of up to two choices
ChatResponses ==
  {TransportFailure, ChatCompletionResponse(FALSE, <<>>), ChatCompletionResponse(TRUE, <<>>)}
  \cup {ChatCompletionResponse(TRUE, <<c>>) : c \in Choices}
  \cup {ChatCompletionResponse(TRUE, <<c, d>>) : c \in Choices, d \in Choices}

----------------------------------------------------------------------------
(* convert *)

\* the threshold compared with < instead of <=
IsDirectStrict(char_count, max_segment_length) == char_count < max_segment_length

\* convert: char_count <= self.max_segment_length
IsDirect(char_count, max_segment_length) == char_count <= max_segment_length

\* a backoff after the last attempt as well
BackoffAfterLast(a, max_retries) == a < max_retries

\* the retry loops' `attempt < max_retries - 1`
BackoffDue(a, max_retries) == a < max_retries - 1

\* the range 0..=max_retries
InRangeInclusive(a, max_retries) == a <= max_retries

\* a loop that tests its bound after the body: one attempt at least
InRangeAtLeastOnce(a, max_retries) == a = 0 \/ a < max_retries

\* the retry loops' range 0..max_retries
InRange(a, max_retries) == a < max_retries

Zeros(n) == [i \in 1..n |-> 0]
NoDelays(n) == [i \in 1..n |-> <<>>]
NoErrors(n) == [i \in 1..n |-> NoError]

\* the number of the text the sequential retry routine is working on
Key == IF mode = "direct" THEN 1 ELSE idx

\* the segments walked from the last to the first
CurrentTextReversed ==
  IF mode = "direct" THEN text ELSE segments[Len(segments) + 1 - idx]

\* the text the retry routine was called with: convert_direct's text, or the
\* segment collect_audio_sequential's loop is at
CurrentText == IF mode = "direct" THEN text ELSE segments[idx]

\* text_to_audio_with_retry from its entry to its first suspension, for text
\* number k; c is the call count so far
RetryEnter(k, c) ==
  /\ attempt' = 0
  /\ last_error' = NoError
  /\ IF InRange(0, cfg.max_retries)
     THEN /\ pc' = "call"
          /\ calls' = [c EXCEPT ![k] = @ + 1]
          /\ outcome' = outcome
     ELSE /\ pc' = "done"
          /\ calls' = c
          /\ outcome' = Err(UnknownError)

\* convert_direct up to its first suspension
convert_direct ==
  /\ mode' = "direct"
  /\ RetryEnter(1, Zeros(1))
  /\ delays' = NoDelays(1)
  /\ lastClientErr' = NoErrors(1)
  /\ UNCHANGED <<segments, idx, audio_segments, parVars, chatVars, file, mergeArg>>

(* collect_audio_parallel *)

InFlight(u) == {i \in DOMAIN u : u[i].st \in {"call", "sleep"}}
Waiting(u)  == {i \in DOMAIN u : u[i].st = "pending"}

\* a stream that takes in every future at once (buffer_unordered(usize::MAX))
FreeSlotsUnbounded(u, max_parallel) == Cardinality(DOMAIN u)

\* buffer_unordered(max_parallel): the futures the stream may still take in
FreeSlots(u, max_parallel) == max_parallel - Cardinality(InFlight(u))

\* the waiting segments taken in now, in input order
ToDispatch(u) ==
  {i \in Waiting(u) :
     Cardinality({j \in Waiting(u) : j < i}) < FreeSlots(u, cfg.max_parallel)}

\* a future taken in runs to its first synthesis call
Fill(u) == [i \in DOMAIN u |->
              IF i \in ToDispatch(u) THEN [u[i] EXCEPT !.st = "call"] ELSE u[i]]

\* a loop over results that drops the failed ones
CollectSkippingErrors(res) ==
  LET oks == SelectSeq(res, LAMBDA r : r.state = "ok")
  IN  [state |-> "ok", buffers |-> [i \in 1..Len(oks) |-> oks[i].value],
       err |-> NoError]

\* the loop over results: the first error in the order the stream yielded
\* them, or every buffer
CollectResults(res) ==
  LET errs == {i \in 1..Len(res) : res[i].state = "err"}
  IN  IF errs = {}
      THEN [state |-> "ok", buffers |-> [i \in 1..Len(res) |-> res[i].value],
            err |-> NoError]
      ELSE [state |-> "err", buffers |-> <<>>,
            err |-> res[CHOOSE i \in errs : \A j \in errs : i <= j].err]

\* the rest of convert_segmented once collect returned
FinishSegmented(collected) ==
  IF collected.state = "err"
  THEN /\ pc' = "done"
       /\ outcome' = Err(collected.err)
       /\ UNCHANGED <<file, mergeArg>>
  ELSE LET r == merge(collected.buffers, file)
       IN  /\ pc' = "done"
           /\ outcome' = r.res
           /\ file' = r.file
           /\ mergeArg' = [called |-> TRUE, buffers |-> collected.buffers]

\* a collect that returns once every future was taken in
StreamDrainedEarly(u) == Waiting(u) = {}

\* collect::<Vec<_>>().await returns once the stream has no future left,
\* neither waiting nor in flight
StreamDrained(u) == InFlight(u) = {} /\ Waiting(u) = {}

\* the stream after one of its futures changed: u the units, res the results
\* yielded so far, comp their segments, c the call counts.  The stream refills
\* its free slots, and once no future is left collect returns
StreamStep(u, res, comp, c) ==
  LET filled == Fill(u)
      taken  == ToDispatch(u)
  IN  /\ units' = filled
      /\ results' = res
      /\ completion' = comp
      /\ calls' = [i \in DOMAIN c |-> IF i \in taken THEN c[i] + 1 ELSE c[i]]
      /\ IF StreamDrained(filled)
         THEN FinishSegmented(CollectResults(res))
         ELSE /\ pc' = "par"
              /\ UNCHANGED <<file, mergeArg, outcome>>

\* collect_audio_parallel up to its first suspension
collect_audio_parallel(segs) ==
  LET n  == Len(segs)
      u0 == [i \in 1..n |-> [st |-> "pending", attempt |-> 0, last_error |-> NoError]]
  IN  /\ mode' = "parallel"
      /\ delays' = NoDelays(n)
      /\ lastClientErr' = NoErrors(n)
      /\ UNCHANGED seqVars
      /\ IF InRange(0, cfg.max_retries)
         THEN StreamStep(u0, <<>>, <<>>, Zeros(n))
         ELSE \* no attempt: every future returns its error at its first poll
              /\ units' = [i \in 1..n |-> [u0[i] EXCEPT !.st = "err"]]
              /\ results' = [i \in 1..n |-> Err(AllFailedError)]
              /\ completion' = [i \in 1..n |-> i]
              /\ calls' = Zeros(n)
              /\ FinishSegmented(CollectResults([i \in 1..n |-> Err(AllFailedError)]))

\* collect_audio_sequential up to its first suspension
collect_audio_sequential(segs) ==
  /\ mode' = "sequential"
  /\ idx' = 1
  /\ audio_segments' = <<>>
  /\ RetryEnter(1, Zeros(Len(segs)))
  /\ delays' = NoDelays(Len(segs))
  /\ lastClientErr' = NoErrors(Len(segs))
  /\ UNCHANGED <<parVars, file, mergeArg>>

\* a convert_segmented that rejects segments longer than max_segment_length
AfterSplitChecked(segs) ==
  /\ segments' = segs
  /\ IF segs = <<>> \/ \E i \in 1..Len(segs) : Len(segs[i]) > cfg.max_segment_length
     THEN /\ pc' = "done"
          /\ outcome' = Err(EmptyInput)
          /\ UNCHANGED <<mode, seqVars, parVars, obsVars, file, mergeArg>>
     ELSE IF cfg.enable_parallel
          THEN collect_audio_parallel(segs)
          ELSE collect_audio_sequential(segs)

\* convert_segmented after splitter.split returned segs
AfterSplit(segs) ==
  /\ segments' = segs
  /\ IF segs = <<>>
     THEN /\ pc' = "done"
          /\ outcome' = Err(EmptyInput)
          /\ UNCHANGED <<mode, seqVars, parVars, obsVars, file, mergeArg>>
     ELSE IF cfg.enable_parallel
          THEN collect_audio_parallel(segs)
          ELSE collect_audio_sequential(segs)

\* an early return that trims the text
ShortCircuitTrimmed(t, max_length) == IF Trim(t) = <<>> THEN <<>> ELSE <<Trim(t)>>

\* a split that returns the text as its one segment whatever its length
SplitsWithoutChatAlways(t, max_length) == TRUE

\* AiSplitter::split's early returns: whether the text needs no chat
\* completion, and what split returns then
SplitsWithoutChat(t, max_length) == Len(t) = 0 \/ Len(t) <= max_length
ShortCircuit(t, max_length) == IF Len(t) = 0 THEN <<>> ELSE <<t>>

\* convert_segmented with AiSplitter::split up to its first suspension
convert_segmented(t) ==
  IF SplitsWithoutChat(t, cfg.max_segment_length)
  THEN AfterSplit(ShortCircuit(t, cfg.max_segment_length)) /\ UNCHANGED chatVars
  ELSE /\ pc' = "chat"
       /\ chatCalls' = chatCalls + 1
       /\ request' = ChatRequest(Splitter(cfg), build_prompt(cfg.max_segment_length, t))
       /\ UNCHANGED <<rawResponse, response, mode, segments, seqVars, parVars, obsVars,
                      file, mergeArg, outcome>>

\* Text2Audio::convert up to its first suspension
convert(txt) ==
  /\ pc = "config"
  /\ input' = txt
  /\ LET t == Trim(txt)
     IN  /\ text' = t
         /\ IF t = <<>>
            THEN /\ pc' = "done"
                 /\ outcome' = Err(EmptyInput)
                 /\ UNCHANGED <<mode, segments, seqVars, parVars, obsVars,
                                chatVars, file, mergeArg>>
            ELSE IF IsDirect(Len(t), cfg.max_segment_length)
                 THEN convert_direct
                 ELSE convert_segmented(t)
  /\ UNCHANGED cfg

\* the chat completion returned raw: parse_segments, then the collection starts
chat_ok(raw) ==
  /\ pc = "chat"
  /\ rawResponse' = raw
  /\ AfterSplit(parse_segments(raw))
  /\ UNCHANGED <<cfg, input, text, chatCalls, request, response>>

\* the chat completion failed: split's `?` and convert_segmented's `?`
chat_err(e) ==
  /\ pc = "chat"
  /\ pc' = "done"
  /\ outcome' = Err(Propagate(e))
  /\ UNCHANGED <<cfg, input, text, mode, segments, seqVars, parVars, obsVars, chatVars,
                 file, mergeArg>>

(* AiSplitter::split called on its own *)

\* the conversions the splitter-only runs leave alone
pipelineVars == <<cfg, input, mode, seqVars, parVars, obsVars, file, mergeArg>>

\* AiSplitter::split up to its return or its chat completion, on the text and
\* with the max_length the run started with
split ==
  /\ pc = "split"
  /\ IF SplitsWithoutChat(text, cfg.max_segment_length)
     THEN /\ pc' = "split_done"
          /\ segments' = ShortCircuit(text, cfg.max_segment_length)
          /\ outcome' = Unit
          /\ UNCHANGED chatVars
     ELSE /\ pc' = "split_chat"
          /\ chatCalls' = chatCalls + 1
          /\ request' = ChatRequest(Splitter(cfg), build_prompt(cfg.max_segment_length, text))
          /\ UNCHANGED <<segments, outcome, rawResponse, response>>
  /\ UNCHANGED <<text, pipelineVars>>

\* the chat completion returned raw: split returns parse_segments(raw)
split_chat_ok(raw) ==
  /\ pc = "split_chat"
  /\ pc' = "split_done"
  /\ rawResponse' = raw
  /\ segments' = parse_segments(raw)
  /\ outcome' = Unit
  /\ UNCHANGED <<text, chatCalls, request, response, pipelineVars>>

\* the chat completion failed with e
split_chat_err(e) ==
  /\ pc = "split_chat"
  /\ pc' = "split_done"
  /\ outcome' = Err(Propagate(e))
  /\ UNCHANGED <<text, segments, chatVars, pipelineVars>>

(* AudioMerger called on its own *)

\* AudioMerger::merge on the buffers the run started with
merge_call ==
  /\ pc = "merger"
  /\ LET r == merge(audio_segments, file)
     IN  /\ pc' = "merged"
         /\ outcome' = r.res
         /\ file' = r.file
         /\ mergeArg' = [called |-> TRUE, buffers |-> audio_segments]
  /\ UNCHANGED <<cfg, input, text, mode, segments, seqVars, parVars, obsVars, chatVars>>

\* AudioMerger::save_single on the one buffer the run started with
save_single_call ==
  /\ pc = "merger"
  /\ Len(audio_segments) = 1
  /\ LET r == save_single(audio_segments[1], file)
     IN  /\ pc' = "saved"
         /\ outcome' = r.res
         /\ file' = r.file
  /\ UNCHANGED <<cfg, input, text, mode, segments, seqVars, parVars, obsVars, chatVars,
                 mergeArg>>

(* text_to_audio_with_retry, in convert_direct and collect_audio_sequential *)

\* try_convert returned the audio
try_convert_ok ==
  /\ pc = "call"
  /\ \E audio \in AudioOf(CurrentText) :
         IF mode = "direct"
         THEN LET r == save_single(audio, file)
              IN  /\ pc' = "done"
                  /\ outcome' = r.res
                  /\ file' = r.file
                  /\ UNCHANGED <<seqVars, calls, mergeArg>>
         ELSE LET collected == Append(audio_segments, audio)
              IN  /\ audio_segments' = collected
                  /\ IF idx < Len(segments)
                     THEN /\ idx' = idx + 1
                          /\ RetryEnter(idx + 1, calls)
                          /\ UNCHANGED <<file, mergeArg>>
                     ELSE /\ FinishSegmented([state |-> "ok", buffers |-> collected,
                                              err |-> NoError])
                          /\ UNCHANGED <<idx, attempt, last_error, calls>>
  /\ UNCHANGED <<cfg, input, text, mode, segments, parVars, delays, lastClientErr, chatVars>>

\* try_convert returned the client's error e, wrapped
try_convert_err(e) ==
  /\ pc = "call"
  /\ last_error' = TryConvertError(e)
  /\ lastClientErr' = [lastClientErr EXCEPT ![Key] = e]
  /\ IF BackoffDue(attempt, cfg.max_retries)
     THEN \E p \in Pow2U32(attempt) :
            IF p.panic
            THEN /\ pc' = "panicked"
                 /\ UNCHANGED <<delays, outcome>>
            ELSE /\ pc' = "sleep"
                 /\ delays' = [delays EXCEPT
                                 ![Key] = Append(@, Delay(cfg.retry_delay, p.mult))]
                 /\ UNCHANGED outcome
     ELSE IF InRange(attempt + 1, cfg.max_retries)
     THEN /\ pc' = "call"
          /\ UNCHANGED <<delays, outcome>>
     ELSE /\ pc' = "done"
          /\ outcome' = Err(TryConvertError(e))
          /\ UNCHANGED delays
  /\ attempt' = IF ~BackoffDue(attempt, cfg.max_retries)
                   /\ InRange(attempt + 1, cfg.max_retries)
                THEN attempt + 1 ELSE attempt
  /\ calls' = IF ~BackoffDue(attempt, cfg.max_retries)
                 /\ InRange(attempt + 1, cfg.max_retries)
              THEN [calls EXCEPT ![Key] = @ + 1] ELSE calls
  /\ UNCHANGED <<cfg, input, text, mode, segments, idx, audio_segments, parVars, chatVars,
                 file, mergeArg>>

\* the backoff sleep ended: the loop goes on, or ends with the last error
retry_wake ==
  /\ pc = "sleep"
  /\ IF InRange(attempt + 1, cfg.max_retries)
     THEN /\ attempt' = attempt + 1
          /\ pc' = "call"
          /\ calls' = [calls EXCEPT ![Key] = @ + 1]
          /\ UNCHANGED outcome
     ELSE /\ pc' = "done"
          /\ outcome' = Err(last_error)
          /\ UNCHANGED <<attempt, calls>>
  /\ UNCHANGED <<cfg, input, text, mode, segments, idx, last_error, audio_segments, parVars,
                 delays, lastClientErr, chatVars, file, mergeArg>>

(* the futures of collect_audio_parallel *)

\* the synthesis call of unit i returned the audio
unit_ok(i) ==
  /\ pc = "par"
  /\ i \in DOMAIN units
  /\ units[i].st = "call"
  /\ \E audio \in AudioOf(segments[i]) :
       StreamStep([units EXCEPT ![i].st = "ok"],
                  Append(results, Ok(audio)),
                  Append(completion, i), calls)
  /\ UNCHANGED <<cfg, input, text, mode, segments, seqVars, delays, lastClientErr, chatVars>>

\* the synthesis call of unit i returned the client's error e
unit_err(i, e) ==
  /\ pc = "par"
  /\ i \in DOMAIN units
  /\ units[i].st = "call"
  /\ lastClientErr' = [lastClientErr EXCEPT ![i] = e]
  /\ LET a  == units[i].attempt
         le == ParallelRetryError(a, e)
     IN  IF BackoffDue(a, cfg.max_retries)
         THEN \E p \in Pow2U32(a) :
                IF p.panic
                THEN /\ pc' = "panicked"
                     /\ UNCHANGED <<parVars, calls, delays, file, mergeArg, outcome>>
                ELSE /\ units' = [units EXCEPT ![i].st = "sleep", ![i].last_error = le]
                     /\ delays' = [delays EXCEPT
                                     ![i] = Append(@, Delay(cfg.retry_delay, p.mult))]
                     /\ UNCHANGED <<pc, results, completion, calls, file, mergeArg,
                                    outcome>>
         ELSE IF InRange(a + 1, cfg.max_retries)
         THEN /\ units' = [units EXCEPT ![i].attempt = a + 1, ![i].last_error = le]
              /\ calls' = [calls EXCEPT ![i] = @ + 1]
              /\ UNCHANGED <<pc, results, completion, delays, file, mergeArg, outcome>>
         ELSE /\ StreamStep([units EXCEPT ![i].st = "err", ![i].last_error = le],
                            Append(results, Err(le)), Append(completion, i), calls)
              /\ UNCHANGED delays
  /\ UNCHANGED <<cfg, input, text, mode, segments, seqVars, chatVars>>

\* the backoff sleep of unit i ended
unit_wake(i) ==
  /\ pc = "par"
  /\ i \in DOMAIN units
  /\ units[i].st = "sleep"
  /\ IF InRange(units[i].attempt + 1, cfg.max_retries)
     THEN /\ units' = [units EXCEPT ![i].st = "call", ![i].attempt = @ + 1]
          /\ calls' = [calls EXCEPT ![i] = @ + 1]
          /\ UNCHANGED <<pc, results, completion, file, mergeArg, outcome>>
     ELSE StreamStep([units EXCEPT ![i].st = "err"],
                     Append(results, Err(units[i].last_error)),
                     Append(completion, i), calls)
  /\ UNCHANGED <<cfg, input, text, mode, segments, seqVars, delays, lastClientErr, chatVars>>

----------------------------------------------------------------------------
(* Specifications *)

Configure ==
  \/ \E x \in SegmentLengthArgs : Set(with_max_segment_length(cfg, x))
  \/ \E n \in ParallelArgs : Set(with_parallel(cfg, n))
  \/ \E r \in 0..MaxRetries, d \in RetryDelayArgs : Set(with_retry_config(cfg, r, d))

Next ==
  \/ Configure
  \/ \E t \in Texts : convert(t)
  \/ \E raw \in Responses : chat_ok(raw)
  \/ \E e \in ClientChatErrors : chat_err(e)
  \/ try_convert_ok
  \/ \E e \in ClientTtsErrors : try_convert_err(e)
  \/ retry_wake
  \/ \E i \in 1..Len(segments) : unit_ok(i)
  \/ \E i \in 1..Len(segments), e \in ClientTtsErrors : unit_err(i, e)
  \/ \E i \in 1..Len(segments) : unit_wake(i)

Spec == Init /\ [][Next]_vars

ShortTexts == {t \in Texts : Len(t) <= 3}

\* the retry routine alone, on the direct path, with max_retries up to
\* MaxAttempts: the backoff multiplier reaches the width of a u32
NextRetry ==
  \/ \E r \in 0..MaxAttempts, d \in RetryDelayArgs : Set(with_retry_config(cfg, r, d))
  \/ \E t \in ShortTexts : convert(t)
  \/ try_convert_ok
  \/ \E e \in ClientTtsErrors : try_convert_err(e)
  \/ retry_wake

SpecRetry == Init /\ [][NextRetry]_vars

\* a pending synthesis call returns, with the audio or with an error, and a
\* pending backoff delay ends
Returns ==
  \/ try_convert_ok
  \/ \E e \in ClientTtsErrors : try_convert_err(e)
  \/ retry_wake

\* the retry-only runs in which every network call and every backoff delay
\* eventually returns
SpecRetryFair == SpecRetry /\ WF_vars(Returns)

\* the configuration alone: every setter of Text2Audio, called on the
\* converter or through the Builder
NextConfig ==
  \/ \E m \in Models : Set(with_model(cfg, m))
  \/ \E v \in VoiceArgs : Set(with_voice(cfg, v))
  \/ \E x \in SpeedArgs : Set(with_speed(cfg, x))
  \/ \E x \in VolumeArgs : Set(with_volume(cfg, x))
  \/ \E n \in LengthArgs : Set(with_max_segment_length(cfg, n))
  \/ \E n \in WorkerArgs : Set(with_parallel(cfg, n))
  \/ \E b \in BOOLEAN : Set(with_thinking(cfg, b))
  \/ \E b \in BOOLEAN : Set(with_coding_plan(cfg, b))
  \/ \E r \in 0..MaxRetries, d \in RetryDelayArgs : Set(with_retry_config(cfg, r, d))
  \/ \E x \in SpeedArgs : Set(Builder(with_speed(Builder(cfg), x)))
  \/ \E n \in WorkerArgs : Set(Builder(with_parallel(Builder(cfg), n)))

SpecConfig == Init /\ [][NextConfig]_vars

\* Client::chat_completion alone: a client of any model, with thinking and
\* the coding plan on or off, and a prompt
InitClient ==
  /\ \E m \in Models, t \in BOOLEAN, c \in BOOLEAN :
        cfg = with_coding_plan(with_thinking(with_model(new, m), t), c)
  /\ text \in Prompts
  /\ pc = "client"
  /\ input = <<>>
  /\ mode = "none"
  /\ segments = <<>>
  /\ idx = 0
  /\ attempt = 0
  /\ last_error = NoError
  /\ audio_segments = <<>>
  /\ units = <<>>
  /\ results = <<>>
  /\ completion = <<>>
  /\ calls = <<>>
  /\ delays = <<>>
  /\ lastClientErr = <<>>
  /\ chatCalls = 0
  /\ rawResponse = NoResponse
  /\ request = NoRequest
  /\ response = NoChatResponse
  /\ file = NoFile
  /\ mergeArg = [called |-> FALSE, buffers |-> <<>>]
  /\ outcome = NotYet

NextClient ==
  \/ chat_completion
  \/ \E r \in ChatResponses : chat_response(r)

SpecClient == InitClient /\ [][NextClient]_vars

\* AudioMerger alone: buffers to merge or save, and output_path with or
\* without a file
InitMerger ==
  /\ audio_segments \in BufferSeqs(MaxBuffers)
  /\ file \in {NoFile, OldFile}
  /\ pc = "merger"
  /\ cfg = new
  /\ input = <<>>
  /\ text = <<>>
  /\ mode = "none"
  /\ segments = <<>>
  /\ idx = 0
  /\ attempt = 0
  /\ last_error = NoError
  /\ units = <<>>
  /\ results = <<>>
  /\ completion = <<>>
  /\ calls = <<>>
  /\ delays = <<>>
  /\ lastClientErr = <<>>
  /\ chatCalls = 0
  /\ rawResponse = NoResponse
  /\ request = NoRequest
  /\ response = NoChatResponse
  /\ mergeArg = [called |-> FALSE, buffers |-> <<>>]
  /\ outcome = NotYet

NextMerger == merge_call \/ save_single_call

SpecMerger == InitMerger /\ [][NextMerger]_vars

\* AiSplitter::new(api_key, model, max_length) and a text to split
InitSplitter ==
  /\ \E n \in SplitLengths : cfg = [new EXCEPT !.max_segment_length = n]
  /\ text \in SplitTexts
  /\ pc = "split"
  /\ input = <<>>
  /\ mode = "none"
  /\ segments = <<>>
  /\ idx = 0
  /\ attempt = 0
  /\ last_error = NoError
  /\ audio_segments = <<>>
  /\ units = <<>>
  /\ results = <<>>
  /\ completion = <<>>
  /\ calls = <<>>
  /\ delays = <<>>
  /\ lastClientErr = <<>>
  /\ chatCalls = 0
  /\ rawResponse = NoResponse
  /\ request = NoRequest
  /\ response = NoChatResponse
  /\ file = NoFile
  /\ mergeArg = [called |-> FALSE, buffers |-> <<>>]
  /\ outcome = NotYet

\* AiSplitter::split alone, on every raw response of up to MaxRaw characters
NextSplitter ==
  \/ split
  \/ \E raw \in RawResponses : split_chat_ok(raw)
  \/ \E e \in ClientChatErrors : split_chat_err(e)

SpecSplitter == InitSplitter /\ [][NextSplitter]_vars

----------------------------------------------------------------------------
(* Properties *)

AllWhitespace(s) == \A i \in 1..Len(s) : s[i] \in Whitespace

Started == pc # "config"
Done == pc = "done"
SynthesisCalls == {i \in DOMAIN calls : calls[i] > 0}

\* C1: in parallel mode the buffers handed to AudioMerger::merge are in segment
\* order: buffer i is the audio synthesized from segment i, whatever the order
\* in which the synthesis calls completed
ParallelOrderPreserved ==
  (mode = "parallel" /\ mergeArg.called) =>
     /\ Len(mergeArg.buffers) = Len(segments)
     /\ \A i \in 1..Len(segments) : mergeArg.buffers[i] \in AudioOf(segments[i])

\* C2: at every moment of a parallel collection at most max_parallel units are
\* in flight (in a synthesis call or a backoff delay), and max_parallel is at
\* most 10
InFlightBounded ==
  /\ cfg.max_parallel <= 10
  /\ Cardinality(InFlight(units)) <= cfg.max_parallel

\* C2's case: the pool is full while a segment still waits
InFlightBoundedWitness ==
  /\ pc = "par"
  /\ Cardinality(InFlight(units)) = cfg.max_parallel
  /\ Waiting(units) # {}

\* C3: for an empty or whitespace-only input convert returns EmptyInput, makes
\* no chat call and no synthesis call and leaves no output file, whatever the
\* configuration
EmptyInputNoCalls ==
  (Started /\ AllWhitespace(input)) =>
     /\ Done
     /\ outcome = Err(EmptyInput)
     /\ chatCalls = 0
     /\ SynthesisCalls = {}
     /\ file = NoFile
     /\ ~mergeArg.called

\* C3's case: a whitespace-only input under a changed configuration
EmptyInputNoCallsWitness ==
  /\ Done
  /\ input # <<>>
  /\ AllWhitespace(input)
  /\ cfg.enable_parallel
  /\ outcome = Err(EmptyInput)

\* C4: a trimmed text of 1..max_segment_length characters takes the direct
\* path: no Segmenter, no chat call, synthesis attempts on the whole trimmed
\* text only, and on success save_single writes that one audio
DirectPathOnly ==
  (Started /\ Len(Trim(input)) \in 1..cfg.max_segment_length) =>
     /\ mode = "direct"
     /\ chatCalls = 0
     /\ segments = <<>>
     /\ ~mergeArg.called
     /\ DOMAIN calls = {1}
     /\ text = Trim(input)
     /\ (Done /\ outcome.state = "ok") =>
           \E d \in Specs : file = Finalized(d, text)
     /\ ~(Done /\ outcome.state = "ok") => file = NoFile

\* C4's case: a text of exactly max_segment_length characters after trimming,
\* converted
DirectPathOnlyWitness ==
  /\ Done
  /\ Len(text) = cfg.max_segment_length
  /\ Len(input) > Len(text)
  /\ outcome.state = "ok"
  /\ file.state = "finalized"

\* convert returned a synthesis failure
Exhausted == Done /\ outcome.state = "err" /\ outcome.err.variant = "TtsApi"

\* the positions of the failures in results
Failures == {r \in 1..Len(results) : results[r].state = "err"}
FirstFailure == CHOOSE r \in Failures : \A q \in Failures : r <= q

\* the number of the text whose failure convert returned
FailedKey == IF mode = "parallel" THEN completion[FirstFailure] ELSE Key

\* the error the retry loop stored at its last failed attempt
StoredError(k) ==
  IF mode = "parallel"
  THEN ParallelRetryError(cfg.max_retries - 1, lastClientErr[k])
  ELSE TryConvertError(lastClientErr[k])

\* the u32 m is 2^a
IsTwoToThe(m, a) ==
  /\ a < 32
  /\ m = U32(IF a >= 16 THEN 2 ^ (a - 16) ELSE 0, IF a < 16 THEN 2 ^ a ELSE 0)

\* C5: when synthesis fails k < max_retries times and then succeeds, the retry
\* routine returns the audio after k+1 attempts and k backoff delays, the delay
\* after failed attempt a being retry_delay * 2^a; no delay follows a success
\* or the final permitted attempt
RetryBackoffExact ==
  /\ pc # "panicked"
  /\ \A k \in DOMAIN delays :
       /\ Len(delays[k]) = 0 \/ Len(delays[k]) + 1 <= cfg.max_retries
       /\ \A a \in 0..(Len(delays[k]) - 1) :
            /\ delays[k][a + 1].base = cfg.retry_delay
            /\ cfg.retry_delay = 0 \/ IsTwoToThe(delays[k][a + 1].mult, a)
  /\ (mode = "direct" /\ Done /\ outcome.state = "ok") =>
        /\ calls[1] = attempt + 1
        /\ Len(delays[1]) = attempt

ErrorVerbatim ==
  (Exhausted /\ calls[FailedKey] >= 1) => outcome.err = lastClientErr[FailedKey]

\* C7 as amended: convert returns a TtsApi error whose message is the display
\* form of the client's last error behind a prefix: "TTS request failed: " on
\* the direct and the sequential path, "Retry <max_retries - 1>: " on the
\* parallel path
ErrorWrapped ==
  (Exhausted /\ calls[FailedKey] >= 1) =>
     /\ outcome.err.variant = "TtsApi"
     /\ outcome.err.msg =
          (IF mode = "parallel"
           THEN <<"Retry ", ToString(cfg.max_retries - 1), ": ">>
           ELSE <<"TTS request failed: ">>)
          \o <<"TTS API error: ">> \o lastClientErr[FailedKey].msg

\* C7's case: a parallel unit failed twice, the second time on an empty body
ErrorWrappedWitness ==
  /\ Exhausted
  /\ mode = "parallel"
  /\ calls[FailedKey] = 2
  /\ lastClientErr[FailedKey] = TtsApi(<<"Received empty audio data">>)

\* C8: in sequential mode segment i+1 is first attempted only after segment i
\* was synthesized, and once segment i exhausted its retries no later segment
\* is attempted and convert returns segment i's error
SequentialInOrder ==
  mode = "sequential" =>
     /\ Len(audio_segments) <= Len(segments)
     /\ \A i \in 1..Len(audio_segments) : audio_segments[i] \in AudioOf(segments[i])
     /\ \A j \in 1..Len(segments) : calls[j] > 0 => Len(audio_segments) >= j - 1
     /\ Exhausted =>
          /\ Len(audio_segments) = idx - 1
          /\ \A j \in 1..Len(segments) : j > idx => calls[j] = 0
          /\ outcome.err = IF cfg.max_retries = 0 THEN UnknownError
                           ELSE TryConvertError(lastClientErr[idx])
          /\ ~mergeArg.called

\* C8's case: the second of three segments exhausted its retries
SequentialInOrderWitness ==
  /\ mode = "sequential"
  /\ Exhausted
  /\ Len(segments) = 3
  /\ idx = 2
  /\ calls[2] > 1

\* C9: in parallel mode, once a unit has exhausted its retries no segment that
\* was not yet dispatched is started, and convert returns that failure
NoDispatchAfterFailure ==
  [][ (mode = "parallel" /\ \E r \in 1..Len(results') : results'[r].state = "err")
        => /\ \A i \in DOMAIN units :
                units[i].st = "pending" => units'[i].st = "pending"
           /\ pc' = "done" =>
                LET failed == {r \in 1..Len(results') : results'[r].state = "err"}
                    first  == CHOOSE r \in failed : \A q \in failed : r <= q
                IN  outcome' = Err(results'[first].err) ]_vars

IsPermutation(seq, n) ==
  /\ Len(seq) = n
  /\ \A i \in 1..n : \E p \in 1..n : seq[p] = i

\* C10: merge is invoked only when every segment was synthesized: it gets one
\* buffer per segment, in sequential and in parallel mode, and is never invoked
\* when a segment failed
MergeOnlyComplete ==
  /\ mergeArg.called =>
       /\ Done
       /\ mode \in {"sequential", "parallel"}
       /\ Len(segments) >= 1
       /\ Len(mergeArg.buffers) = Len(segments)
       /\ mode = "sequential" =>
            \A i \in 1..Len(segments) : mergeArg.buffers[i] \in AudioOf(segments[i])
       /\ mode = "parallel" =>
            /\ IsPermutation(completion, Len(segments))
            /\ \A i \in 1..Len(segments) :
                 /\ units[i].st = "ok"
                 /\ mergeArg.buffers[i] \in AudioOf(segments[completion[i]])
  /\ (mode = "parallel" /\ \E i \in DOMAIN units : units[i].st = "err")
       => ~mergeArg.called
  /\ (mode = "sequential" /\ Exhausted) => ~mergeArg.called

\* C10's case: merge invoked with the three buffers of a parallel collection
MergeOnlyCompleteWitness ==
  /\ mergeArg.called
  /\ mode = "parallel"
  /\ Len(mergeArg.buffers) = 3

----------------------------------------------------------------------------
(* The splitter *)

SplitReturned == pc = "split_done"
ChatAnswered == rawResponse # NoResponse

\* C13: split returns no segment for a text of 0 characters and the text
\* itself, unchanged, as the only segment for a text of 1..max_length
\* characters, both without a chat completion; it makes exactly one chat
\* completion for a longer text
SplitShortCircuits ==
  pc \in {"split", "split_chat", "split_done"} =>
    LET n == Len(text)
        max_length == cfg.max_segment_length
    IN  /\ pc = "split" => chatCalls = 0
        /\ (pc # "split" /\ n = 0) =>
              SplitReturned /\ outcome = Unit /\ segments = <<>> /\ chatCalls = 0
        /\ (pc # "split" /\ n \in 1..max_length) =>
              SplitReturned /\ outcome = Unit /\ segments = <<text>> /\ chatCalls = 0
        /\ (pc # "split" /\ n > max_length) => chatCalls = 1

\* C13's case: a text of two characters, the first a blank, came back as it is
SplitShortCircuitsWitness ==
  /\ SplitReturned
  /\ text = <<" ", "a">>
  /\ segments = <<text>>
  /\ chatCalls = 0

ContainsDelimiter(s) == \E i \in 1..Len(s) : MatchAt(s, i)

\* the first position of the run of delimiter characters that position i is in
RunStart(s, i) ==
  CHOOSE j \in 1..i :
    /\ \A k \in j..i : s[k] = SEGMENT_DELIMITER[1]
    /\ j = 1 \/ s[j - 1] # SEGMENT_DELIMITER[1]

\* where a reader going left to right finds the delimiters: in a run of
\* delimiter characters, at every third character while three are left
DelimiterStarts(s) ==
  {i \in 1..Len(s) :
     MatchAt(s, i) /\ (i - RunStart(s, i)) % Len(SEGMENT_DELIMITER) = 0}

\* the pieces of s between its delimiters, from left to right
BetweenDelimiters(s) ==
  LET H == DelimiterStarts(s)
      n == Cardinality(H)
      Nth(k) == CHOOSE i \in H : Cardinality({j \in H : j < i}) = k - 1
      lo(k) == IF k = 1 THEN 1 ELSE Nth(k - 1) + Len(SEGMENT_DELIMITER)
      hi(k) == IF k = n + 1 THEN Len(s) ELSE Nth(k) - 1
  IN  [k \in 1..(n + 1) |-> SubSeq(s, lo(k), hi(k))]

\* those pieces trimmed, without the ones that are empty after trimming
TrimmedPieces(s) ==
  LET ps == BetweenDelimiters(s)
  IN  SelectSeq([k \in 1..Len(ps) |-> Trim(ps[k])], LAMBDA q : q # <<>>)

\* C14: for a raw response containing the delimiter, parse_segments returns
\* the pieces between the delimiters, each trimmed, without the pieces that
\* are empty after trimming, in their order
ParseByDelimiter ==
  (SplitReturned /\ ChatAnswered /\ ContainsDelimiter(rawResponse)) =>
     segments = TrimmedPieces(rawResponse)

\* C14 as amended: the trimmed non-empty pieces in their order when there is
\* at least one; when every piece is empty after trimming, the raw response
\* itself, untrimmed and with its delimiters, as the only segment
ParseByDelimiterOrRaw ==
  (SplitReturned /\ ChatAnswered /\ ContainsDelimiter(rawResponse)) =>
     segments = IF TrimmedPieces(rawResponse) # <<>>
                THEN TrimmedPieces(rawResponse)
                ELSE <<rawResponse>>

\* C14's case: two padded pieces around one delimiter
ParseByDelimiterOrRawWitness ==
  /\ SplitReturned
  /\ rawResponse = <<" ", "A", "|", "|", "|", "A", " ">>
  /\ segments = << <<"A">>, <<"A">> >>

\* C15: for a raw response without the delimiter, parse_segments returns one
\* segment, the raw response trimmed
ParseWithoutDelimiter ==
  (SplitReturned /\ ChatAnswered /\ ~ContainsDelimiter(rawResponse)) =>
     segments = <<Trim(rawResponse)>>

\* C15 as amended: one segment, which is the raw response trimmed when the
\* response has a character that is not whitespace, and the raw response as it
\* is (empty or all whitespace) otherwise
ParseWithoutDelimiterOrRaw ==
  (SplitReturned /\ ChatAnswered /\ ~ContainsDelimiter(rawResponse)) =>
     segments = <<IF Trim(rawResponse) # <<>> THEN Trim(rawResponse)
                                              ELSE rawResponse>>

\* C15's case: a padded response with delimiter characters but no delimiter
ParseWithoutDelimiterOrRawWitness ==
  /\ SplitReturned
  /\ rawResponse = <<" ", "A", "|", "|", "A", " ">>
  /\ segments = << <<"A", "|", "|", "A">> >>

\* C16: for a non-empty text split returns segments and never an error,
\* whatever the chat completion did
SplitNeverFails ==
  (SplitReturned /\ Len(text) > 0) => outcome.state = "ok"

\* C16 as amended: split returns an error exactly when its chat completion
\* failed, and the error is that call's AiApi error unchanged; whenever the
\* chat completion returned a text, whatever the text, and whenever no chat
\* completion was needed, split returns segments
SplitFailsOnlyWithChat ==
  SplitReturned =>
     /\ outcome.state = "err" =>
           /\ chatCalls = 1
           /\ ~ChatAnswered
           /\ outcome.err \in ClientChatErrors
           /\ segments = <<>>
     /\ ChatAnswered => (outcome = Unit /\ Len(segments) >= 1)
     /\ chatCalls = 0 => outcome = Unit
     /\ (outcome = Unit /\ chatCalls = 1) => ChatAnswered

\* C16's case: the chat completion for a text of three characters failed
SplitFailsOnlyWithChatWitness ==
  /\ SplitReturned
  /\ Len(text) = 3
  /\ outcome.state = "err"

\* the text behind call counter k
TextOf(k) == IF mode = "direct" THEN text ELSE segments[k]

\* C17: every segment the splitter returns, and so every text convert sends
\* to synthesis, is a non-empty string, whatever the chat response
SegmentsNonEmpty ==
  /\ \A i \in 1..Len(segments) : segments[i] # <<>>
  /\ \A k \in SynthesisCalls : TextOf(k) # <<>>

----------------------------------------------------------------------------
(* The output file *)

\* a synthesis call or a backoff delay of the conversion is in flight
SynthesisInFlight ==
  \/ pc \in {"call", "sleep"}
  \/ InFlight(units) # {}

\* C11: the output file is created and written only by AudioMerger and only
\* after all synthesis has finished: when the file exists no synthesis call
\* or backoff delay is in flight, none starts afterwards, and the file changes
\* only in a step that invokes save_single or merge
FileWrittenAfterSynthesis ==
  /\ [](file # NoFile => (Done /\ ~SynthesisInFlight))
  /\ [][file # NoFile => (calls' = calls /\ delays' = delays)]_vars
  /\ [][file' # file =>
          \/ mode = "direct" /\ pc = "call" /\ pc' = "done"
          \/ ~mergeArg.called /\ mergeArg'.called]_vars

\* C11's case: the file of a parallel conversion of three segments
FileWrittenAfterSynthesisWitness ==
  /\ file.state = "finalized"
  /\ mode = "parallel"
  /\ Len(segments) = 3
  /\ Len(file.data) = 3

\* C12: when every network call and every backoff delay eventually returns,
\* every call of convert eventually returns, with success or with an error
ConvertTerminates == Started ~> Done

----------------------------------------------------------------------------
(* The merger *)

\* C18: merge on no buffer and save_single on a buffer of zero bytes each
\* fail with an Audio error and leave output_path as it was, neither creating
\* nor truncating the file
EmptyInputsRejected ==
  [][ /\ (pc = "merger" /\ pc' = "merged" /\ audio_segments = <<>>) =>
            /\ outcome' = Err(AudioError(<<"No audio segments to merge">>))
            /\ file' = file
      /\ (pc = "merger" /\ pc' = "saved" /\ audio_segments[1] = EmptyBuffer) =>
            /\ outcome' = Err(AudioError(<<"Empty audio data">>))
            /\ file' = file ]_vars

\* C18's case: merge was called on no buffer where a file existed
EmptyInputsRejectedWitness ==
  /\ pc = "merged"
  /\ audio_segments = <<>>
  /\ outcome.state = "err"
  /\ outcome.err.variant = "Audio"
  /\ file = OldFile

\* the number of samples in buffers 1..n
RECURSIVE SampleCount(_, _)
SampleCount(buffers, n) ==
  IF n = 0 THEN 0 ELSE SampleCount(buffers, n - 1) + Len(Samples(buffers[n]))

\* C19: when merge succeeds the output holds the samples of the buffers one
\* buffer after the other in the buffers' order, each sample once and in its
\* place, so that the output has as many samples as the buffers together
MergeConcatenates ==
  (mergeArg.called /\ outcome = Unit) =>
     LET b == mergeArg.buffers
     IN  /\ file.state = "finalized"
         /\ Len(file.data) = SampleCount(b, Len(b))
         /\ \A i \in 1..Len(b) : \A k \in 1..Len(Samples(b[i])) :
               file.data[SampleCount(b, i - 1) + k] = Samples(b[i])[k]

\* C19's case: three buffers of two, one and two samples were merged
MergeConcatenatesWitness ==
  /\ pc = "merged"
  /\ outcome = Unit
  /\ Len(mergeArg.buffers) = 3
  /\ file.data = <<"B", "C", "A", "B", "C">>

\* the audio synthesized from segment i
AudioOfSegment(i) ==
  IF mode = "parallel"
  THEN results[CHOOSE r \in 1..Len(results) : completion[r] = i].value
  ELSE audio_segments[i]

\* C20: on a successful segmented conversion the output's format descriptor
\* is that of the first buffer handed to merge, which is the audio of segment
\* 0, whatever the descriptors of the later buffers
OutputSpecOfSegmentZero ==
  (Done /\ outcome = Unit /\ mergeArg.called) =>
     /\ file.spec = mergeArg.buffers[1].spec
     /\ file.spec = AudioOfSegment(1).spec

\* C21: merge returns an error whenever a buffer's format descriptor differs
\* from the first buffer's
MergeRejectsMixedFormats ==
  LET b == mergeArg.buffers
  IN  ( /\ mergeArg.called
        /\ \E i \in 1..Len(b) :
              /\ ParsesAsWav(b[1])
              /\ ParsesAsWav(b[i])
              /\ extract_wav_spec(b[i]) # extract_wav_spec(b[1]) )
      => outcome.state = "err"

\* buffer i is the first buffer of b whose header does not parse
FirstUnparsed(b, i) ==
  /\ i \in 1..Len(b)
  /\ ~ParsesAsWav(b[i])
  /\ \A j \in 1..(i - 1) : ParsesAsWav(b[j])

\* C22: when buffer i, counted from 0, is the first buffer that does not parse
\* as a WAV container, merge fails with an Audio error whose message holds
\* the index i; this for i = 0 as well
MergeErrorNamesIndex ==
  LET b == mergeArg.buffers
  IN  mergeArg.called =>
        \A i \in 1..Len(b) :
           FirstUnparsed(b, i) =>
             /\ outcome.state = "err"
             /\ outcome.err.variant = "Audio"
             /\ \E k \in 1..Len(outcome.err.msg) : outcome.err.msg[k] = ToString(i - 1)

\* the header of buffer i parsed and every sample of it was read
Copied(b, i) == ParsesAsWav(b[i]) /\ ~ReadFails(b[i])

\* C23: a call of merge finalizes the writer only after the samples of every
\* buffer were copied, the output then holding all of them; when the copy
\* fails at some buffer merge returns an error and the writer it created is
\* not finalized
MergeFinalizesLast ==
  [][ (pc = "merger" /\ pc' = "merged") =>
        LET b == audio_segments
        IN  /\ (file' # file /\ file'.state = "finalized") =>
                  /\ \A i \in 1..Len(b) : Copied(b, i)
                  /\ file'.data = Concat(b, Len(b))
                  /\ outcome' = Unit
            /\ (\E i \in 1..Len(b) : ~Copied(b, i)) =>
                  /\ outcome'.state = "err"
                  /\ (file' = file \/ file'.state = "created") ]_vars

\* C23's case: the copy failed at the third buffer after the samples of two
\* buffers were written, and merge returned the error without finalizing
MergeFinalizesLastWitness ==
  /\ pc = "merged"
  /\ Len(mergeArg.buffers) = 3
  /\ ~ParsesAsWav(mergeArg.buffers[3])
  /\ outcome.state = "err"
  /\ file.state = "created"
  /\ file.data = <<"B", "C", "A">>

----------------------------------------------------------------------------
(* The configuration *)

\* an f32 is a number of the range lo..hi, given in tenths
Within(x, lo, hi) == ~x.nan /\ lo <= x.tenths /\ x.tenths <= hi

\* C24: after new and any sequence of setter calls with any arguments the
\* stored max_segment_length is in 100..1024, max_parallel in 1..10, speed in
\* 0.5..2.0 and volume in 0.0..10.0
ConfigInRange ==
  /\ cfg.max_segment_length \in MinSegmentLength..MaxSegmentLength
  /\ cfg.max_parallel \in MinParallel..MaxParallel
  /\ Within(cfg.speed, MinSpeedTenths, MaxSpeedTenths)
  /\ Within(cfg.volume, MinVolumeTenths, MaxVolumeTenths)

\* f32::max and f32::min: the other operand when one is NaN
f32_max(a, b) == IF a.nan THEN b ELSE IF b.nan THEN a ELSE IF Lt(a, b) THEN b ELSE a
f32_min(a, b) == IF a.nan THEN b ELSE IF b.nan THEN a ELSE IF Lt(b, a) THEN b ELSE a

Max(a, b) == IF a < b THEN b ELSE a
Min(a, b) == IF b < a THEN b ELSE a

\* C25: each clamped setter stores min(max(x, lo), hi) of its argument x,
\* whatever the converter it is called on and whatever x
SetterStoresMinMax ==
  [][ /\ \A x \in SpeedArgs :
            Set(with_speed(cfg, x)) =>
              cfg'.speed = f32_min(f32_max(x, F32(MinSpeedTenths)), F32(MaxSpeedTenths))
      /\ \A x \in VolumeArgs :
            Set(with_volume(cfg, x)) =>
              cfg'.volume = f32_min(f32_max(x, F32(MinVolumeTenths)), F32(MaxVolumeTenths))
      /\ \A n \in LengthArgs :
            Set(with_max_segment_length(cfg, n)) =>
              cfg'.max_segment_length = Min(Max(n, MinSegmentLength), MaxSegmentLength)
      /\ \A n \in WorkerArgs :
            Set(with_parallel(cfg, n)) =>
              cfg'.max_parallel = Min(Max(n, MinParallel), MaxParallel) ]_vars

\* C26: a clamped setter called twice with the same argument leaves the
\* configuration that one call leaves, whatever the configuration it starts
\* from and whatever the argument
SettersIdempotent ==
  /\ \A x \in SpeedArgs :
        with_speed(with_speed(cfg, x), x) = with_speed(cfg, x)
  /\ \A x \in VolumeArgs :
        with_volume(with_volume(cfg, x), x) = with_volume(cfg, x)
  /\ \A n \in LengthArgs :
        with_max_segment_length(with_max_segment_length(cfg, n), n)
          = with_max_segment_length(cfg, n)
  /\ \A n \in WorkerArgs :
        with_parallel(with_parallel(cfg, n), n) = with_parallel(cfg, n)

\* C26's case: the setters were called with arguments above and below their
\* ranges on a converter that is no longer the default one
SettersIdempotentWitness ==
  /\ cfg.speed = F32(MaxSpeedTenths)
  /\ cfg.volume = F32(MinVolumeTenths)
  /\ cfg.max_segment_length = MaxSegmentLength
  /\ cfg.enable_parallel
  /\ cfg.max_parallel = MinParallel
  /\ cfg.model # DefaultModel

----------------------------------------------------------------------------
(* The client *)

\* the response is a transport failure or lacks a first choice whose message
\* content is a string
Malformed(r) ==
  \/ r.failed
  \/ ~r.has_choices
  \/ r.choices = <<>>
  \/ ~r.choices[1].has_content
  \/ r.choices[1].content.type # "string"

\* C27: chat_completion returns an AiApi error and no text when the transport
\* fails or the response has no choices, an empty list of choices, a first
\* choice without content or a content that is not a string; otherwise it
\* returns the first choice's content string
ChatCompletionResult ==
  pc = "client_done" =>
    IF Malformed(response)
    THEN /\ outcome.state = "err"
         /\ outcome.err.variant = "AiApi"
         /\ rawResponse = NoResponse
    ELSE /\ outcome = Unit
         /\ rawResponse = response.choices[1].content.s

\* C27's case: the first choice's content is a number and the second's a
\* string, and chat_completion returned an error
ChatCompletionResultWitness ==
  /\ pc = "client_done"
  /\ Len(response.choices) = 2
  /\ response.choices[1].content.type = "number"
  /\ response.choices[2].content.type = "string"
  /\ outcome = Err(AiApi(<<"Invalid AI response format">>))

\* C29: every chat-completion request, whatever the model and with thinking
\* on or off, carries the fixed instruction as its one system message,
\* followed by the caller's prompt as a user message
OneSystemThenUser ==
  pc \in {"client_wait", "client_done"} =>
    /\ request.messages =
         <<Message("system", SystemInstruction), Message("user", text)>>
    /\ Cardinality({k \in 1..Len(request.messages) :
                      request.messages[k].role = "system"}) = 1

----------------------------------------------------------------------------
(* The retry policy of the two collections *)

\* where the retry loop of text k stands: not entered, in a synthesis call,
\* in a backoff delay, returned the audio, or returned an error.  For a
\* parallel unit this is the state of its future; the sequential routine is
\* at text Key, the texts before it returned their audio
LoopState(k) ==
  IF mode = "parallel" THEN units[k].st
  ELSE IF k < Key THEN "ok"
  ELSE IF k > Key THEN "pending"
  ELSE CASE pc = "call"  -> "call"
         [] pc = "sleep" -> "sleep"
         [] OTHER        -> IF Exhausted THEN "err" ELSE "ok"

\* C28: a parallel unit and the sequential text_to_audio_with_retry run the
\* same policy: whatever the mode, max_retries, retry_delay and the failures
\* of the synthesis, the loop of a text that failed f times so far has made
\* f attempts when in a delay and f + 1 otherwise, has taken the delays
\* retry_delay * 2^0, 2^1, ... after each failure but the last permitted one,
\* returns an error exactly after max_retries failed attempts and the audio
\* at the first success
SameRetryPolicy ==
  \A k \in DOMAIN calls :
     LET st == LoopState(k)
         n  == calls[k]
         d  == delays[k]
     IN  /\ n <= cfg.max_retries
         /\ st = "pending" => n = 0 /\ d = <<>>
         /\ st \in {"call", "ok"} => n >= 1 /\ Len(d) = n - 1
         /\ st = "sleep" => n >= 1 /\ n < cfg.max_retries /\ Len(d) = n
         /\ st = "err" => n = cfg.max_retries /\ Len(d) = Max(n - 1, 0)
         /\ \A a \in 0..(Len(d) - 1) :
               d[a + 1].base = cfg.retry_delay /\ IsTwoToThe(d[a + 1].mult, a)

\* C28's case: a parallel unit returned the audio at its third attempt, after
\* two delays, while another failed three times
SameRetryPolicyWitness ==
  /\ mode = "parallel"
  /\ Done
  /\ \E i \in DOMAIN units, j \in DOMAIN units :
        /\ units[i].st = "ok" /\ calls[i] = 3 /\ Len(delays[i]) = 2
        /\ units[j].st = "err" /\ calls[j] = 3 /\ Len(delays[j]) = 2

----------------------------------------------------------------------------
(* Segments longer than the threshold *)

\* the segments longer than max_segment_length
Oversized == {i \in 1..Len(segments) : Len(segments[i]) > cfg.max_segment_length}

\* C30: when the chat response yields a segment longer than
\* max_segment_length, the segments are those the splitter returned, none
\* re-split; convert does not fail for it, the only failure left being that
\* of a synthesis call; and the synthesis of that segment is issued for its
\* whole text
OversizedSegmentSynthesized ==
  (ChatAnswered /\ Oversized # {}) =>
     /\ segments = parse_segments(rawResponse)
     /\ (Done /\ outcome.state = "err") => outcome.err.variant = "TtsApi"
     /\ (cfg.max_retries >= 1 /\ 1 \in Oversized) => calls[1] >= 1
     /\ (Done /\ outcome = Unit) =>
           \A i \in Oversized :
              /\ calls[i] >= 1
              /\ AudioOfSegment(i) \in AudioOf(segments[i])
              /\ Len(Samples(AudioOfSegment(i))) > cfg.max_segment_length

\* C30's case: a parallel conversion succeeded whose first segment has 101
\* characters, the threshold being 100
OversizedSegmentSynthesizedWitness ==
  /\ Done
  /\ outcome = Unit
  /\ mode = "parallel"
  /\ cfg.max_segment_length = MinSegmentLength
  /\ Len(segments) = 2
  /\ Len(segments[1]) = MinSegmentLength + 1
  /\ file.state = "finalized"
  /\ Len(file.data) = MinSegmentLength + 2

----------------------------------------------------------------------------
(* The setters' frame *)

\* the converters c and d differ in the fields own at most
SameBut(c, d, own) == \A f \in (DOMAIN c) \ own : c[f] = d[f]

\* the setters A and B, called with the arguments XA and XB, commute on cfg
Commute(A(_, _), XA, B(_, _), XB) ==
  \A x \in XA, y \in XB : A(B(cfg, y), x) = B(A(cfg, x), y)

RetryArgs == (0..MaxRetries) \X RetryDelayArgs
retry_config(c, p) == with_retry_config(c, p[1], p[2])

\* C31: each setter, called on the converter or through the Builder, changes
\* its own fields only: with_model model, with_voice voice, with_speed speed,
\* with_volume volume, with_max_segment_length max_segment_length,
\* with_parallel enable_parallel and max_parallel, with_thinking
\* enable_thinking, with_coding_plan coding_plan, with_retry_config
\* max_retries and retry_delay
SettersFrame ==
  /\ \A m \in Models : SameBut(cfg, Builder(with_model(Builder(cfg), m)), {"model"})
  /\ \A v \in VoiceArgs : SameBut(cfg, Builder(with_voice(Builder(cfg), v)), {"voice"})
  /\ \A x \in SpeedArgs : SameBut(cfg, Builder(with_speed(Builder(cfg), x)), {"speed"})
  /\ \A x \in VolumeArgs : SameBut(cfg, Builder(with_volume(Builder(cfg), x)), {"volume"})
  /\ \A n \in LengthArgs :
        SameBut(cfg, Builder(with_max_segment_length(Builder(cfg), n)),
                {"max_segment_length"})
  /\ \A n \in WorkerArgs :
        SameBut(cfg, Builder(with_parallel(Builder(cfg), n)),
                {"enable_parallel", "max_parallel"})
  /\ \A b \in BOOLEAN :
        SameBut(cfg, Builder(with_thinking(Builder(cfg), b)), {"enable_thinking"})
  /\ \A b \in BOOLEAN :
        SameBut(cfg, Builder(with_coding_plan(Builder(cfg), b)), {"coding_plan"})
  /\ \A p \in RetryArgs :
        SameBut(cfg, Builder(retry_config(Builder(cfg), p)), {"max_retries", "retry_delay"})

\* C31, the consequence: two setters on different fields, called one after
\* the other, leave the same converter in either order
SettersCommute ==
  /\ Commute(with_model, Models, with_voice, VoiceArgs)
  /\ Commute(with_model, Models, with_speed, SpeedArgs)
  /\ Commute(with_model, Models, with_volume, VolumeArgs)
  /\ Commute(with_model, Models, with_max_segment_length, LengthArgs)
  /\ Commute(with_model, Models, with_parallel, WorkerArgs)
  /\ Commute(with_model, Models, with_thinking, BOOLEAN)
  /\ Commute(with_model, Models, with_coding_plan, BOOLEAN)
  /\ Commute(with_model, Models, retry_config, RetryArgs)
  /\ Commute(with_voice, VoiceArgs, with_speed, SpeedArgs)
  /\ Commute(with_voice, VoiceArgs, with_volume, VolumeArgs)
  /\ Commute(with_voice, VoiceArgs, with_max_segment_length, LengthArgs)
  /\ Commute(with_voice, VoiceArgs, with_parallel, WorkerArgs)
  /\ Commute(with_voice, VoiceArgs, with_thinking, BOOLEAN)
  /\ Commute(with_voice, VoiceArgs, with_coding_plan, BOOLEAN)
  /\ Commute(with_voice, VoiceArgs, retry_config, RetryArgs)
  /\ Commute(with_speed, SpeedArgs, with_volume, VolumeArgs)
  /\ Commute(with_speed, SpeedArgs, with_max_segment_length, LengthArgs)
  /\ Commute(with_speed, SpeedArgs, with_parallel, WorkerArgs)
  /\ Commute(with_speed, SpeedArgs, with_thinking, BOOLEAN)
  /\ Commute(with_speed, SpeedArgs, with_coding_plan, BOOLEAN)
  /\ Commute(with_speed, SpeedArgs, retry_config, RetryArgs)
  /\ Commute(with_volume, VolumeArgs, with_max_segment_length, LengthArgs)
  /\ Commute(with_volume, VolumeArgs, with_parallel, WorkerArgs)
  /\ Commute(with_volume, VolumeArgs, with_thinking, BOOLEAN)
  /\ Commute(with_volume, VolumeArgs, with_coding_plan, BOOLEAN)
  /\ Commute(with_volume, VolumeArgs, retry_config, RetryArgs)
  /\ Commute(with_max_segment_length, LengthArgs, with_parallel, WorkerArgs)
  /\ Commute(with_max_segment_length, LengthArgs, with_thinking, BOOLEAN)
  /\ Commute(with_max_segment_length, LengthArgs, with_coding_plan, BOOLEAN)
  /\ Commute(with_max_segment_length, LengthArgs, retry_config, RetryArgs)
  /\ Commute(with_parallel, WorkerArgs, with_thinking, BOOLEAN)
  /\ Commute(with_parallel, WorkerArgs, with_coding_plan, BOOLEAN)
  /\ Commute(with_parallel, WorkerArgs, retry_config, RetryArgs)
  /\ Commute(with_thinking, BOOLEAN, with_coding_plan, BOOLEAN)
  /\ Commute(with_thinking, BOOLEAN, retry_config, RetryArgs)
  /\ Commute(with_coding_plan, BOOLEAN, retry_config, RetryArgs)

\* C31: the frame of every setter, and the commutation it gives
SettersChangeOwnFields == SettersFrame /\ SettersCommute

\* C31's case: every setter was called, each field of the converter now
\* differing from the one new gave it
SettersChangeOwnFieldsWitness ==
  \A f \in DOMAIN new : cfg[f] # new[f]

----------------------------------------------------------------------------
(* Thinking and the model *)

\* the request call_chat builds for the client and the prompt of this run,
\* written out: the instruction, the prompt as user message, no thinking
PlainRequest ==
  [model       |-> cfg.model,
   messages    |-> <<Message("system", SystemInstruction), Message("user", text)>>,
   thinking    |-> FALSE,
   coding_plan |-> cfg.coding_plan]

\* C32: the request chat_completion sends carries the thinking augmentation
\* exactly when thinking is enabled and the model is GLM4_7, GLM4_6 or
\* GLM4_5; for GLM4_5Flash and GLM4_5Air the request is the one sent with
\* thinking disabled whether thinking is enabled or not, and the call fails
\* only if the transport or the response does
ThinkingOnlyWhereSupported ==
  pc \in {"client_wait", "client_done"} =>
    /\ request.thinking <=>
         (cfg.enable_thinking /\ cfg.model \in {"GLM4_7", "GLM4_6", "GLM4_5"})
    /\ cfg.model \in {"GLM4_5Flash", "GLM4_5Air"} =>
         /\ request = PlainRequest
         /\ (pc = "client_done" /\ ~Malformed(response)) => outcome = Unit

\* C32's case: thinking is enabled on GLM4_5Flash, the request went out
\* without the augmentation and chat_completion returned the content
ThinkingOnlyWhereSupportedWitness ==
  /\ pc = "client_done"
  /\ cfg.model = "GLM4_5Flash"
  /\ cfg.enable_thinking
  /\ ~request.thinking
  /\ outcome = Unit

----------------------------------------------------------------------------
(* The chat completion of a segmented conversion *)

\* convert took the segmented path: the trimmed text is longer than
\* max_segment_length
Segmented == Started /\ Len(text) > cfg.max_segment_length

\* C33: a segmented conversion makes exactly one chat-completion call, for
\* the prompt built from the trimmed text; while the call is out no synthesis
\* attempt was made and no collection started; the segments are the ones
\* parsed from its response, never the text itself handed back by one of
\* split's early returns; and when the call fails convert returns its error
\* with no synthesis attempt made
OneChatBeforeSynthesis ==
  Segmented =>
    /\ chatCalls = 1
    /\ request.messages[2].content = build_prompt(cfg.max_segment_length, text)
    /\ pc = "chat" <=> (~ChatAnswered /\ ~Done)
    /\ ~ChatAnswered =>
         /\ SynthesisCalls = {}
         /\ ~SynthesisInFlight
         /\ mode = "none"
         /\ segments = <<>>
         /\ Done => (outcome.state = "err" /\ outcome.err.variant = "AiApi")
    /\ ChatAnswered => segments = parse_segments(rawResponse)

\* C33: the steps of a segmented conversion: the first synthesis attempt
\* starts in a step the chat completion has returned by, and the number of
\* chat-completion calls never changes after convert made the one
ChatThenSynthesis ==
  [][ Segmented =>
        /\ (SynthesisCalls = {} /\ SynthesisCalls' # {}) => ChatAnswered'
        /\ chatCalls' = chatCalls ]_vars

\* C33's case: the chat completion of a segmented conversion returned and a
\* synthesis attempt was made for one of its segments
OneChatBeforeSynthesisWitness ==
  /\ Segmented
  /\ chatCalls = 1
  /\ ChatAnswered
  /\ Len(segments) = 3
  /\ SynthesisCalls # {}

----------------------------------------------------------------------------
(* EmptyInput *)

\* C34: convert returns Error::EmptyInput exactly when the trimmed input is
\* empty; on the segmented path split returns at least one segment for every
\* chat response, so convert_segmented's is_empty test is never true
EmptyInputIffBlank ==
  /\ Done => (outcome = Err(EmptyInput) <=> Trim(input) = <<>>)
  /\ (Segmented /\ ChatAnswered) =>
       /\ segments # <<>>
       /\ mode # "none"
       /\ outcome # Err(EmptyInput)

\* C34's case: the chat completion of a segmented conversion returned a
\* response without any text, and convert went on with one segment
EmptyInputIffBlankWitness ==
  /\ Done
  /\ Segmented
  /\ rawResponse \in {<<>>, <<" ">>, SEGMENT_DELIMITER}
  /\ Len(segments) = 1
  /\ outcome # Err(EmptyInput)

----------------------------------------------------------------------------
(* max_retries = 0 *)

\* with max_retries = 0 the loop body of the retry routine never runs: no
\* synthesis call, no backoff delay, hence no `max_retries - 1`, no panic, and
\* neither merge nor the output file
ZeroRetriesNoAttempt ==
  /\ pc \in {"chat", "done"}
  /\ SynthesisCalls = {}
  /\ ~SynthesisInFlight
  /\ \A k \in DOMAIN delays : delays[k] = <<>>
  /\ \A k \in DOMAIN lastClientErr : lastClientErr[k] = NoError
  /\ ~mergeArg.called
  /\ file = NoFile

\* C35: with max_retries = 0 the retry routine, sequential or parallel, makes
\* no synthesis attempt and no delay and never evaluates max_retries - 1, and
\* convert on any non-empty text fails with a TtsApi error and creates no file
ZeroRetriesFailsTtsApi ==
  (cfg.max_retries = 0 /\ Started /\ text # <<>>) =>
    /\ ZeroRetriesNoAttempt
    /\ Done => (outcome.state = "err" /\ outcome.err.variant = "TtsApi")

\* C35 as amended: the same, except that a segmented conversion whose chat
\* completion fails returns that AiApi error; every other convert on a
\* non-empty text returns the TtsApi error the routine makes up, "Unknown
\* error" from the sequential routine and "All retry attempts failed" from
\* the parallel one
ZeroRetriesFails ==
  (cfg.max_retries = 0 /\ Started /\ text # <<>>) =>
    /\ ZeroRetriesNoAttempt
    /\ Done =>
         IF Segmented /\ ~ChatAnswered
         THEN outcome.state = "err" /\ outcome.err \in ClientChatErrors
         ELSE outcome = Err(IF mode = "parallel" THEN AllFailedError ELSE UnknownError)

\* C35's case: max_retries is 0 and a parallel conversion of three segments
\* failed with no synthesis call made
ZeroRetriesFailsWitness ==
  /\ cfg.max_retries = 0
  /\ Done
  /\ mode = "parallel"
  /\ Len(segments) = 3
  /\ SynthesisCalls = {}
  /\ outcome = Err(AllFailedError)

----------------------------------------------------------------------------
(* The width of the backoff multiplier *)

\* C36: whatever max_retries with_retry_config stored, every backoff delay
\* the retry routine computes, after a failed attempt with
\* attempt < max_retries - 1, has a multiplier 2^attempt that fits in a u32:
\* the power never overflows, so the routine never panics in it and never
\* stores a wrapped multiplier
BackoffPowerFits ==
  /\ pc # "panicked"
  /\ \A k \in DOMAIN delays :
       \A a \in 1..Len(delays[k]) :
          /\ a - 1 < U32Bits
          /\ IsTwoToThe(delays[k][a].mult, a - 1)

====
